---- MODULE Spec2Model ----
(***************************************************************************)
(* Model of the synchronization task of cluster/sync/task.go.              *)
(*                                                                         *)
(* One task is constructed and run once against a chain; SetSendFunc can   *)
(* be called on it at any time.  The injected functions (needSkip,         *)
(* findAncestor, getHeaders, getBlocks, syncBlock) and the chain           *)
(* (CurrentHeader, Validator().ValidateSeal, AddBlock) are external: every *)
(* result they can hand back is a nondeterministic choice.                 *)
(*                                                                         *)
(* Spec is that task against an arbitrary peer on short chains; SpecGroup  *)
(* adds a second task of the package with its own send field; SpecLong     *)
(* runs the task on header lists and block batches of the sizes the        *)
(* package names (100 and 50).                                             *)
(*                                                                         *)
(* Heights are uint64 in the source.  The model keeps them small, so       *)
(* number+1 never wraps; the one subtraction of the source that can wrap   *)
(* (line 61) is modelled by Uint64Sub/Uint64Gt below.                      *)
(***************************************************************************)
EXTENDS Integers, Sequences, FiniteSets, TLC

\* ---------------------------------------------------------------- bounds
MaxHeight == 2   \* block numbers range over 0..MaxHeight

\* ------------------------------------------------------- program constants
ProgressEvery == 100   \* counter%100 of the commit loop

\* ------------------------------------------------------------------ values
Nil      == "nil"              \* nil func / nil error
Running  == "running"          \* Run has not returned yet
NoHeader == [isNil |-> TRUE]   \* a types.IHeader for which qkcom.IsNil holds

ErrFindAncestor == "err:findAncestor"
ErrGetHeaders   == "err:getHeaders"
ErrSeal         == "err:ValidateSeal"
ErrOrder        == "should have descending order with step 1"
ErrLinked       == "should have blocks correctly linked"
ErrGetBlocks    == "err:getBlocks"
ErrLength1      == "unmatched block length-1"
ErrLength2      == "unmatched block length-2"
ErrSyncBlock    == "err:syncBlock"
ErrAddBlock     == "err:AddBlock"

Heights == 0..MaxHeight

\* A hash identifies one header: the header of height n on chain f.
Hash(n, f) == <<n, f>>

\* types.IHeader as far as the task reads it: NumberU64, Hash, GetParentHash.
\* Hdr(n, f) is the header of height n on chain f, built on that chain's
\* header of height n-1.
Hdr(n, f) == [number |-> n, hash |-> Hash(n, f), parentHash |-> Hash(n - 1, f)]

\* A header that claims height n but is built on chain "a"'s header of
\* height n-2: linked to it, yet not contiguous with it.
Jump(n) == [number |-> n, hash |-> Hash(n, "j"), parentHash |-> Hash(n - 2, "a")]

\* The headers a peer can serve: two competing chains and the jump headers.
PeerHeaders == {Hdr(n, f) : n \in 1..MaxHeight, f \in {"a", "b"}}
                   \cup {Jump(n) : n \in 2..MaxHeight}

\* The headers findAncestor can return.
Ancestors == {Hdr(n, f) : n \in Heights, f \in {"a", "b"}}

\* types.IBlock as far as the task reads it: NumberU64() and IHeader(), which
\* is a header or nil.
Blk(h) == [number |-> h.number, header |-> h]

\* A block of height n whose IHeader() is nil.
Headless(n) == [number |-> n, header |-> NoHeader]

\* The blocks a peer can serve.
Blocks == {Blk(h) : h \in PeerHeaders} \cup {Headless(n) : n \in 1..MaxHeight}

\* The peer's block of a given hash.
BlockOf(hash) == Blk(CHOOSE h \in PeerHeaders : h.hash = hash)

Names        == {"shard-0", "root"}
Sinks        == {"sinkA", "sinkB"}
StaleLimits  == {0, 1}      \* values of t.maxSyncStaleness
BatchSizes   == {1, 2}      \* values of t.batchSize
TargetHeights == {MaxHeight - 1, MaxHeight}   \* heights of t.header

VARIABLES
    name, maxSyncStaleness, batchSize, header, send, hasSyncBlock,  \* task
    bcHead, bcBlocks,                                               \* chain
    pc, ancestor, headers, hashlist, blocks, counter, idx,          \* Run
    ret,                                                            \* Run's result
    calls, events,                                                  \* observed
    sibling                                                         \* second task

taskVars  == <<name, maxSyncStaleness, batchSize, header, send, hasSyncBlock>>
chainVars == <<bcHead, bcBlocks>>
runVars   == <<pc, ancestor, headers, hashlist, blocks, counter, idx, ret>>
vars      == <<taskVars, chainVars, runVars, calls, events, sibling>>

\* calls is the sequence of calls Run has made to the injected functions and
\* to the chain, each with what was passed and what came back; events is the
\* sequence of values handed to the sink.  sibling is a second task of the
\* package working on the same chain, set aside while the first one's calls
\* are followed: all of the above but the chain, as a record.

\* ------------------------------------------------------------- helpers
\* strings.HasPrefix(t.name, "shard-")
HasShardPrefix(n) == n = "shard-0"

\* uint64 subtraction a - b.  A wrapped result 2^64 - (b - a) is represented
\* by the negative integer a - b.
Uint64Sub(a, b) == a - b

\* uint64 comparison x > y for x as produced by Uint64Sub and 0 <= y < 2^63:
\* a wrapped x is at least 2^64 - MaxHeight and exceeds every such y.
Uint64Gt(x, y) == IF x < 0 THEN TRUE ELSE x > y

\* sendSync: what the sink receives, if there is one.
sendSync(evs, snd, syncing, curr, best) ==
    IF snd # Nil
    THEN Append(evs, [sink |-> snd, syncing |-> syncing,
                      current |-> curr, highest |-> best])
    ELSE evs

\* No second task.
NoTask == [pc |-> "absent"]

\* The task Run is working on: its fields, where its Run stands, and what
\* it has called and sent.
ThisTask ==
    [name |-> name, maxSyncStaleness |-> maxSyncStaleness,
     batchSize |-> batchSize, header |-> header, send |-> send,
     hasSyncBlock |-> hasSyncBlock, pc |-> pc, ancestor |-> ancestor,
     headers |-> headers, hashlist |-> hashlist, blocks |-> blocks,
     counter |-> counter, idx |-> idx, ret |-> ret, calls |-> calls,
     events |-> events]

\* The task and the chain before Run.
InitTask ==
    /\ name \in Names
    /\ maxSyncStaleness \in StaleLimits
    /\ batchSize \in BatchSizes
    /\ header \in TargetHeights
    /\ send = Nil
    /\ hasSyncBlock \in BOOLEAN
    /\ bcHead \in Heights
    /\ bcBlocks = <<>>
    /\ pc = "idle"
    /\ ancestor = NoHeader
    /\ headers = <<>>
    /\ hashlist = <<>>
    /\ blocks = <<>>
    /\ counter = 0
    /\ idx = 0
    /\ ret = Running
    /\ calls = <<>>
    /\ events = <<>>

Init == InitTask /\ sibling = NoTask

\* SetSendFunc that overwrites a sink already attached.
Attach_LastWins(nm, cur, s) == IF HasShardPrefix(nm) THEN s ELSE cur

\* Lines 142-144: the sink a task holds after SetSendFunc(s).
Attach(nm, cur, s) == IF HasShardPrefix(nm) /\ cur = Nil THEN s ELSE cur

\* task.SetSendFunc, lines 141-145: it can be called at any time, before,
\* during or after Run, and takes effect in one write of the send field.
SetSendFunc(s) ==
    /\ send' = Attach(name, send, s)
    /\ UNCHANGED <<name, maxSyncStaleness, batchSize, header, hasSyncBlock,
                   chainVars, runVars, calls, events, sibling>>

\* Two tasks take turns on the one chain: the task whose calls are followed
\* is set aside as it stands and the other one is taken up where it was
\* left.  Which task goes on is the choice of whoever runs them.
Switch ==
    /\ sibling # NoTask
    /\ sibling' = ThisTask
    /\ name' = sibling.name
    /\ maxSyncStaleness' = sibling.maxSyncStaleness
    /\ batchSize' = sibling.batchSize
    /\ header' = sibling.header
    /\ send' = sibling.send
    /\ hasSyncBlock' = sibling.hasSyncBlock
    /\ pc' = sibling.pc
    /\ ancestor' = sibling.ancestor
    /\ headers' = sibling.headers
    /\ hashlist' = sibling.hashlist
    /\ blocks' = sibling.blocks
    /\ counter' = sibling.counter
    /\ idx' = sibling.idx
    /\ ret' = sibling.ret
    /\ calls' = sibling.calls
    /\ events' = sibling.events
    /\ UNCHANGED chainVars

\* RunStart with the start event sent ahead of the skip gate.
RunStart_EventFirst(skip) ==
    /\ pc = "idle"
    /\ calls' = Append(calls, [op |-> "needSkip", err |-> Nil, result |-> skip])
    /\ events' = sendSync(events, send, FALSE, bcHead, header)
    /\ IF skip
       THEN pc' = "done" /\ ret' = Nil
       ELSE pc' = "findAncestor" /\ ret' = ret
    /\ UNCHANGED <<sibling, taskVars, chainVars, ancestor, headers, hashlist, blocks,
                   counter, idx>>

\* Run, lines 46-52: the skip gate and the start event.
RunStart(skip) ==
    /\ pc = "idle"
    /\ calls' = Append(calls, [op |-> "needSkip", err |-> Nil, result |-> skip])
    /\ IF skip
       THEN /\ pc' = "done"
            /\ ret' = Nil
            /\ events' = events
       ELSE /\ pc' = "findAncestor"
            /\ ret' = ret
            /\ events' = sendSync(events, send, FALSE, bcHead, header)
    /\ UNCHANGED <<sibling, taskVars, chainVars, ancestor, headers, hashlist, blocks,
                   counter, idx>>

\* Line 55: findAncestor's result ends the task when it carries an error or
\* no ancestor.
NoAncestor(anc, err) == err # Nil \/ anc = NoHeader

\* TooStale with >= in place of >.
TooStale_Inclusive(cur, anc, stale) ==
    LET d == Uint64Sub(cur, anc) IN Uint64Gt(d, stale) \/ d = stale

\* Line 61: the staleness gate.
TooStale(cur, anc, stale) == Uint64Gt(Uint64Sub(cur, anc), stale)

\* Run, lines 54-64: ancestor discovery and the staleness gate.
FindAncestor(anc, err) ==
    /\ pc = "findAncestor"
    /\ calls' = Append(calls, [op |-> "findAncestor", err |-> err, anc |-> anc])
    /\ IF NoAncestor(anc, err)
       THEN /\ pc' = "done"
            /\ ret' = err
            /\ ancestor' = anc
       ELSE /\ ancestor' = anc
            /\ IF TooStale(bcHead, anc.number, maxSyncStaleness)
               THEN pc' = "done" /\ ret' = Nil
               ELSE pc' = "getHeaders" /\ ret' = ret
    /\ UNCHANGED <<sibling, taskVars, chainVars, headers, hashlist, blocks, counter,
                   idx, events>>

\* BatchIsEmpty with the test of line 71 left out.
BatchIsEmpty_Never(hs) == FALSE

\* Line 71: the batch that ends the task.
BatchIsEmpty(hs) == Len(hs) = 0

\* Run, lines 66-73: one call of the header fetcher.
GetHeaders(hs, err) ==
    /\ pc = "getHeaders"
    /\ ancestor # NoHeader
    /\ calls' = Append(calls, [op |-> "getHeaders", err |-> err,
                               from |-> ancestor, headers |-> hs])
    /\ headers' = hs
    /\ IF err # Nil
       THEN pc' = "done" /\ ret' = err
       ELSE IF BatchIsEmpty(hs)
            THEN pc' = "done" /\ ret' = Nil
            ELSE pc' = "validate" /\ ret' = ret
    /\ UNCHANGED <<sibling, taskVars, chainVars, ancestor, hashlist, blocks, counter,
                   idx, events>>

\* OrderOK with the numbers left unchecked.
OrderOK_Unchecked(prev, h) == TRUE

\* Line 163: the numbers of an adjacent pair.
OrderOK(prev, h) == h.number = prev.number + 1

\* LinkOK with the parent hash left unchecked.
LinkOK_Unchecked(prev, h) == TRUE

\* Line 166: the linkage of an adjacent pair.
LinkOK(prev, h) == prev.hash = h.parentHash

\* HeaderErrorAt with the seal check placed inside the prev # nil branch, so
\* that the first header's seal is never looked at.
HeaderErrorAt_SealAfterFirst(hs, bad, k, prev) ==
    IF prev # NoHeader /\ ~OrderOK(prev, hs[k]) THEN ErrOrder
    ELSE IF prev # NoHeader /\ ~LinkOK(prev, hs[k]) THEN ErrLinked
    ELSE IF prev # NoHeader /\ k \in bad THEN ErrSeal
    ELSE Nil

\* Lines 161-173, one iteration of the loop: the error header k raises when
\* prev is the header before it (none for the first), Nil if it passes.  bad
\* is the set of positions whose seal the validator rejects.
HeaderErrorAt(hs, bad, k, prev) ==
    IF prev # NoHeader /\ ~OrderOK(prev, hs[k]) THEN ErrOrder
    ELSE IF prev # NoHeader /\ ~LinkOK(prev, hs[k]) THEN ErrLinked
    ELSE IF k \in bad THEN ErrSeal
    ELSE Nil

\* Lines 159-176: the loop from header i on with prev before it stops at the
\* first header that raises an error.  Returns the error and the number of
\* seals validated.
ValidateFrom(hs, bad, i, prev) ==
    LET Before(k) == IF k = i THEN prev ELSE hs[k - 1]
        failing   == {k \in i..Len(hs) : HeaderErrorAt(hs, bad, k, Before(k)) # Nil}
    IN  IF failing = {} THEN [err |-> Nil, sealed |-> Len(hs)]
        ELSE LET k == CHOOSE x \in failing : \A y \in failing : x <= y
                 e == HeaderErrorAt(hs, bad, k, Before(k))
             IN  [err |-> e, sealed |-> IF e = ErrSeal THEN k ELSE k - 1]

validateHeaderList(hs, bad) == ValidateFrom(hs, bad, 1, NoHeader)

\* The ValidateSeal calls validateHeaderList makes: headers 1..n, each with
\* the second argument false (line 170).
SealCalls(hs, bad, n) ==
    [i \in 1..n |-> [op |-> "ValidateSeal", err |-> IF i \in bad THEN ErrSeal ELSE Nil,
                     h |-> hs[i], enforce |-> FALSE]]

\* Lines 81-84.
HashesOf(hs) == [i \in 1..Len(hs) |-> hs[i].hash]

\* Run, lines 75-86: validate the batch and build its hash list.
ValidateHeaders(bad) ==
    /\ pc = "validate"
    /\ LET r == validateHeaderList(headers, bad) IN
       /\ calls' = calls \o SealCalls(headers, bad, r.sealed)
       /\ IF r.err # Nil
          THEN pc' = "done" /\ ret' = r.err /\ hashlist' = hashlist
          ELSE /\ ret' = ret
               /\ hashlist' = HashesOf(headers)
               /\ pc' = IF Len(headers) > 0 THEN "getBlocks" ELSE "getHeaders"
    /\ UNCHANGED <<sibling, taskVars, chainVars, ancestor, headers, blocks, counter,
                   idx, events>>

\* Lines 88-89, 99: the hashes requested by the next getBlocks call.
Chunk(hl, size) == IF Len(hl) > size THEN SubSeq(hl, 1, size) ELSE hl

\* Rest that drops one hash more than was requested.
Rest_SkipsOne(hl, size) ==
    IF Len(hl) > size THEN SubSeq(hl, size + 2, Len(hl)) ELSE <<>>

\* Lines 97, 107: the hash list after that call.
Rest(hl, size) == IF Len(hl) > size THEN SubSeq(hl, size + 1, Len(hl)) ELSE <<>>

\* LengthMismatch that rejects short responses only.
LengthMismatch_ShortOnly(got, want) == got < want

\* Lines 94, 104: the count check on a getBlocks response.
LengthMismatch(got, want) == got # want

\* Run, lines 86-114: one call of the block fetcher.
GetBlocks(bs, err) ==
    /\ pc = "getBlocks"
    /\ Len(hashlist) > 0
    /\ LET chunk == Chunk(hashlist, batchSize) IN
       /\ calls' = Append(calls, [op |-> "getBlocks", err |-> err,
                                  hashes |-> chunk, blocks |-> bs])
       /\ blocks' = bs
       /\ IF err # Nil
          THEN /\ pc' = "done" /\ ret' = err
               /\ UNCHANGED <<hashlist, counter, idx>>
          ELSE IF LengthMismatch(Len(bs), Len(chunk))
               THEN /\ pc' = "done"
                    /\ ret' = IF Len(hashlist) > batchSize THEN ErrLength1 ELSE ErrLength2
                    /\ UNCHANGED <<hashlist, counter, idx>>
               ELSE /\ pc' = "commit" /\ ret' = ret
                    /\ hashlist' = Rest(hashlist, batchSize)
                    /\ counter' = 0
                    /\ idx' = 1
    /\ UNCHANGED <<sibling, taskVars, chainVars, ancestor, headers, events>>

\* HookAborts with the hook's error dropped.
HookAborts_Ignored(hookErr) == FALSE

\* Lines 116-120: whether the hook's result ends the task before AddBlock.
HookAborts(hookErr) == hookErr # Nil

\* The chain's head height once AddBlock has accepted blk: the chain keeps
\* its head unless the block is higher.  The chain is not part of task.go;
\* Run reads the head at lines 52 and 61 and, when it leaves the loop of
\* line 66, at line 136.
HeadAfter(head, blk) == IF blk.number > head THEN blk.number ELSE head

\* Run, lines 115-133 and 66: one iteration of the commit loop on
\* blocks[idx]; hookErr and addErr are what syncBlock and AddBlock return.
\* After the last block of the last chunk the loop of line 66 goes on if that
\* block has a header; if it has none, Run leaves the loop.
CommitBlock(hookErr, addErr) ==
    /\ pc = "commit"
    /\ idx <= Len(blocks)
    /\ LET blk     == blocks[idx]
           hooked  == IF hasSyncBlock
                      THEN Append(calls, [op |-> "syncBlock", err |-> hookErr, blk |-> blk])
                      ELSE calls
           aborted == hasSyncBlock /\ HookAborts(hookErr)
           sent    == IF (counter + 1) % ProgressEvery = 0
                      THEN sendSync(events, send, TRUE, blk.number,
                                    blocks[Len(blocks)].number)
                      ELSE events
           leaves  == /\ idx = Len(blocks) /\ Len(hashlist) = 0
                      /\ blk.header = NoHeader
       IN
       IF aborted
       THEN /\ calls' = hooked
            /\ pc' = "done" /\ ret' = hookErr
            /\ UNCHANGED <<chainVars, ancestor, counter, idx, events>>
       ELSE /\ calls' = Append(hooked, [op |-> "AddBlock", err |-> addErr, blk |-> blk])
            /\ IF addErr # Nil
               THEN /\ pc' = "done" /\ ret' = addErr
                    /\ UNCHANGED <<chainVars, ancestor, counter, idx, events>>
               ELSE /\ bcBlocks' = Append(bcBlocks, blk)
                    /\ bcHead' = HeadAfter(bcHead, blk)
                    /\ counter' = counter + 1
                    /\ ancestor' = blk.header
                    /\ idx' = idx + 1
                    /\ events' = sent
                    /\ ret' = ret
                    /\ pc' = IF leaves THEN "end"
                             ELSE IF idx < Len(blocks) THEN "commit"
                             ELSE IF Len(hashlist) > 0 THEN "getBlocks"
                             ELSE "getHeaders"
    /\ UNCHANGED <<sibling, taskVars, headers, hashlist, blocks>>

\* Run, lines 135-138: out of the loop, Run reads the chain's head as it is
\* then, sends the end event and returns nil.
EndSync ==
    /\ pc = "end"
    /\ events' = sendSync(events, send, FALSE, bcHead, header)
    /\ ret' = Nil
    /\ pc' = "done"
    /\ UNCHANGED <<sibling, taskVars, chainVars, ancestor, headers, hashlist,
                   blocks, counter, idx, calls>>

\* Batches of the peer's headers with strictly ascending numbers above n.
RECURSIVE HeaderBatchesAbove(_)
HeaderBatchesAbove(n) ==
    {<<>>} \cup UNION {{<<h>> \o t : t \in HeaderBatchesAbove(h.number)} :
                         h \in {x \in PeerHeaders : x.number > n}}

\* The headers of a broken pair: chain "a" from height 0 on, and the jump
\* headers built on it.
PairHeaders == {Hdr(n, "a") : n \in Heights} \cup {Jump(n) : n \in 2..MaxHeight}

\* Pairs of headers the second of which does not follow the first: its number
\* is not the next one (a gap, a repeat, a descent) or its parent hash is not
\* the first one's hash.
BrokenPairs ==
    {p \in {<<x, y>> : x, y \in PairHeaders} :
        p[2].number # p[1].number + 1 \/ p[2].parentHash # p[1].hash}

\* What a peer answers to getHeaders(from): an ascending batch above from,
\* or a broken pair that starts anywhere.  A batch that follows pair by pair
\* and does not start above from is left out: a peer that keeps sending such
\* batches keeps Run in its loop for ever.
HeaderResponses(from) == HeaderBatchesAbove(from.number) \cup BrokenPairs

\* What a peer answers to getBlocks(chunk) with as many blocks as hashes:
\* the blocks asked for, or those with one of them replaced by another block
\* with a header that is not below it, or by a block of its height without
\* a header.
BlockResponses(chunk) ==
    LET asked == [i \in 1..Len(chunk) |-> BlockOf(chunk[i])] IN
    {asked} \cup UNION {{[asked EXCEPT ![k] = b] :
                             b \in {x \in Blocks :
                                      \/ x.header # NoHeader /\ x.number >= asked[k].number
                                      \/ x = Headless(asked[k].number)}} :
                          k \in 1..Len(chunk)}

\* A response of n blocks, n different from the number of hashes.
WrongLength(chunk, n) ==
    [i \in 1..n |-> BlockOf(chunk[IF i <= Len(chunk) THEN i ELSE Len(chunk)])]

Next ==
    \/ \E s \in Sinks : SetSendFunc(s)
    \/ \E skip \in BOOLEAN : RunStart(skip)
    \/ \E anc \in Ancestors \cup {NoHeader}, err \in {Nil, ErrFindAncestor} :
         FindAncestor(anc, err)
    \/ \E hs \in IF pc = "getHeaders" THEN HeaderResponses(ancestor) ELSE {<<>>} :
         GetHeaders(hs, Nil)
    \/ GetHeaders(<<>>, ErrGetHeaders)
    \/ \E bad \in SUBSET (1..Len(headers)) : ValidateHeaders(bad)
    \/ \E bs \in IF pc = "getBlocks"
                 THEN LET chunk == Chunk(hashlist, batchSize) IN
                      BlockResponses(chunk)
                        \cup {WrongLength(chunk, n) : n \in {Len(chunk) - 1, Len(chunk) + 1}}
                 ELSE {<<>>} :
         GetBlocks(bs, Nil)
    \/ GetBlocks(<<>>, ErrGetBlocks)
    \/ \E hookErr \in {Nil, ErrSyncBlock}, addErr \in {Nil, ErrAddBlock} :
         CommitBlock(hookErr, addErr)
    \/ EndSync

Spec == Init /\ [][Next]_vars

\* ------------------------------------------- batches of the package's sizes
\* Lines 15-20: the batch sizes and the header list limit the package names.
RootBlockBatchSize        == 100
MinorBlockHeaderListLimit == 100
MinorBlockBatchSize       == 50

\* The number of non-empty header batches the peer serves.
MaxRounds == 2

\* The peer's chain "a" has MaxRounds * MinorBlockHeaderListLimit blocks above
\* the ancestor; it answers getHeaders(from) with the full list of headers
\* that follow from.
HeadersAfter(from) ==
    [i \in 1..MinorBlockHeaderListLimit |-> Hdr(from.number + i, "a")]

\* The block with a given hash.
BlockAt(hash) == Blk(Hdr(hash[1], hash[2]))

\* The blocks asked for.
BlocksAsked(chunk) == [i \in 1..Len(chunk) |-> BlockAt(chunk[i])]

\* The blocks asked for, but the last one replaced by the peer's block of
\* height 1.
BlocksOldTail(chunk) ==
    [BlocksAsked(chunk) EXCEPT ![Len(chunk)] = Blk(Hdr(1, "a"))]

\* The getHeaders calls made so far.
Rounds == Len(SelectSeq(calls, LAMBDA c : c.op = "getHeaders"))

InitLong ==
    /\ name \in Names
    /\ maxSyncStaleness = 1
    /\ batchSize \in {MinorBlockBatchSize, RootBlockBatchSize}
    /\ header = MaxRounds * MinorBlockHeaderListLimit
    /\ send = Nil
    /\ hasSyncBlock = FALSE
    /\ bcHead = 0
    /\ bcBlocks = <<>>
    /\ pc = "idle"
    /\ ancestor = NoHeader
    /\ headers = <<>>
    /\ hashlist = <<>>
    /\ blocks = <<>>
    /\ counter = 0
    /\ idx = 0
    /\ ret = Running
    /\ calls = <<>>
    /\ events = <<>>
    /\ sibling = NoTask

\* Run against a peer that serves full header lists and as many blocks as
\* were asked for, with every injected call succeeding.
NextLong ==
    \/ \E s \in Sinks : SetSendFunc(s)
    \/ \E skip \in BOOLEAN : RunStart(skip)
    \/ FindAncestor(Hdr(0, "a"), Nil)
    \/ GetHeaders(IF pc = "getHeaders" /\ Rounds < MaxRounds
                  THEN HeadersAfter(ancestor) ELSE <<>>, Nil)
    \/ ValidateHeaders({})
    \/ \E bs \in IF pc = "getBlocks"
                 THEN LET chunk == Chunk(hashlist, batchSize) IN
                      {BlocksAsked(chunk), BlocksOldTail(chunk)}
                 ELSE {<<>>} :
         GetBlocks(bs, Nil)
    \/ CommitBlock(Nil, Nil)

SpecLong == InitLong /\ [][NextLong]_vars

\* ------------------------------------------------ two tasks of one package
\* Two tasks built alike but for their names on one chain, each with its own
\* send field, their SetSendFunc and Run calls interleaved in any order.
InitGroup ==
    /\ InitTask
    /\ maxSyncStaleness = 1 /\ batchSize = 2 /\ ~hasSyncBlock /\ bcHead = 0
    /\ sibling \in {[ThisTask EXCEPT !.name = n] : n \in Names}

\* The peer's chain "a" ends at height MaxHeight; it answers getHeaders(from)
\* with the header that follows from, or with nothing at its tip.
NextHeader(from) ==
    IF from.number < MaxHeight THEN <<Hdr(from.number + 1, "a")>> ELSE <<>>

\* The blocks asked for, but the last one without its header.
BlocksBareTail(chunk) ==
    [BlocksAsked(chunk) EXCEPT ![Len(chunk)] = Headless(@.number)]

\* Both tasks run against that peer, with every injected call succeeding.
NextGroup ==
    \/ \E s \in Sinks : SetSendFunc(s)
    \/ \E skip \in BOOLEAN : RunStart(skip)
    \/ FindAncestor(Hdr(0, "a"), Nil)
    \/ GetHeaders(IF pc = "getHeaders" THEN NextHeader(ancestor) ELSE <<>>, Nil)
    \/ ValidateHeaders({})
    \/ \E bs \in IF pc = "getBlocks"
                 THEN LET chunk == Chunk(hashlist, batchSize) IN
                      {BlocksAsked(chunk), BlocksBareTail(chunk)}
                 ELSE {<<>>} :
         GetBlocks(bs, Nil)
    \/ CommitBlock(Nil, Nil)
    \/ EndSync
    \/ Switch

SpecGroup == InitGroup /\ [][NextGroup]_vars

\* ------------------------------------------------------------ properties
\* Positions of the calls of one function in the call sequence.
CallIdx(op) == {i \in 1..Len(calls) : calls[i].op = op}

\* The last call of one function (0: never called).
LastCall(op) == IF CallIdx(op) = {} THEN 0
                ELSE CHOOSE i \in CallIdx(op) : \A j \in CallIdx(op) : j <= i

\* Run has returned a non-nil error.
ReturnedError == pc = "done" /\ ret # Nil /\ ret # Running

\* The skip predicate was called and returned true.
Skipped == Len(calls) >= 1 /\ calls[1].op = "needSkip" /\ calls[1].result

\* findAncestor has returned an ancestor and no error.
AncestorFound ==
    /\ Len(calls) >= 2 /\ calls[2].op = "findAncestor"
    /\ calls[2].err = Nil /\ calls[2].anc # NoHeader

\* C1: when the skip predicate returns true, Run returns nil, has emitted no
\* progress event, has added no block, and has called nothing but the
\* predicate.
C1_SkipIsSilent ==
    Skipped => /\ pc = "done" /\ ret = Nil
               /\ events = <<>>
               /\ bcBlocks = <<>>
               /\ Len(calls) = 1

\* C1 witness: a task with a sink attached was skipped.
C1_Witness == Skipped /\ send # Nil /\ pc = "done"

\* Every adjacent pair of the batch has consecutive numbers and is linked.
Linked(hs) ==
    \A i \in 1..(Len(hs) - 1) :
        /\ hs[i + 1].number = hs[i].number + 1
        /\ hs[i + 1].parentHash = hs[i].hash

\* C2: a header batch with an adjacent pair that is not consecutive or not
\* linked makes Run return an error, and after the getHeaders call that
\* returned it no getBlocks, syncBlock or AddBlock call is made; so every
\* batch whose blocks are fetched is consecutive and linked.
C2_BrokenBatchRejected ==
    ~Linked(headers) =>
        /\ pc \in {"validate", "done"}
        /\ pc = "done" => ReturnedError
        /\ \A i \in 1..Len(calls) :
              i > LastCall("getHeaders") =>
                 calls[i].op \notin {"getBlocks", "syncBlock", "AddBlock"}

\* C2 witness: a batch of two headers with a gap between their numbers, the
\* second built on the first, was rejected for its order after the seal of
\* its first header had been validated.
C2_Witness ==
    /\ Len(headers) = 2 /\ headers[2].number = headers[1].number + 2
    /\ headers[2].parentHash = headers[1].hash
    /\ pc = "done" /\ ret = ErrOrder
    /\ calls[Len(calls)].op = "ValidateSeal"

\* C3: a getBlocks response whose length differs from the number of hashes
\* requested makes Run return an error with no call after it, so blocks
\* reach the hook and AddBlock only from responses of the requested length.
C3_LengthChecked ==
    \A i \in CallIdx("getBlocks") :
        Len(calls[i].blocks) # Len(calls[i].hashes) =>
            i = Len(calls) /\ ReturnedError

\* C3 witness: a response longer than the request was rejected.
C3_Witness ==
    /\ LastCall("getBlocks") = Len(calls) /\ Len(calls) > 0
    /\ calls[Len(calls)].err = Nil
    /\ Len(calls[Len(calls)].blocks) > Len(calls[Len(calls)].hashes)
    /\ ret \in {ErrLength1, ErrLength2}

\* C4: with currentHeight - ancestorHeight equal to maxSyncStaleness the
\* task goes on to call the header fetcher; with the difference one more, Run
\* returns nil and calls nothing after findAncestor.
C4_StalenessBoundary ==
    (AncestorFound /\ bcBlocks = <<>>) =>
        /\ bcHead - calls[2].anc.number = maxSyncStaleness =>
              \/ pc = "getHeaders" /\ Len(calls) = 2
              \/ Len(calls) >= 3 /\ calls[3].op = "getHeaders"
        /\ bcHead - calls[2].anc.number = maxSyncStaleness + 1 =>
              pc = "done" /\ ret = Nil /\ Len(calls) = 2

\* C4 witness: at the boundary, with a head above the ancestor, the header
\* fetcher was called.
C4_Witness ==
    /\ AncestorFound /\ bcBlocks = <<>> /\ maxSyncStaleness > 0
    /\ bcHead - calls[2].anc.number = maxSyncStaleness
    /\ Len(calls) >= 3 /\ calls[3].op = "getHeaders"

\* The blocks passed to AddBlock, in call order.
PassedToAddBlock ==
    LET added == SelectSeq(calls, LAMBDA c : c.op = "AddBlock")
    IN  [i \in 1..Len(added) |-> added[i].blk]

\* C5: the blocks passed to AddBlock have heights ascending by one, the
\* first one above the ancestor findAncestor returned.
C5_AscendingCommits ==
    AncestorFound =>
        \A i \in 1..Len(PassedToAddBlock) :
            PassedToAddBlock[i].number =
                (IF i = 1 THEN calls[2].anc.number
                          ELSE PassedToAddBlock[i - 1].number) + 1

\* C6: the i-th block committed from a chunk has the i-th hash requested
\* for that chunk.
C6_CommittedAsRequested ==
    LET g == LastCall("getBlocks") IN
    (g > 0 /\ calls[g].err = Nil /\ Len(calls[g].blocks) = Len(calls[g].hashes)) =>
        \A i \in 1..(idx - 1) :
            /\ blocks[i].header # NoHeader
            /\ blocks[i].header.hash = calls[g].hashes[i]

\* C7: with the skip predicate false and a sink attached when Run reaches
\* line 52 (it has then been handed an event), when the ancestor locator is
\* about to be called the sink has received exactly the start event
\* {syncing=true, current=head at entry, highest=target height}.
C7_StartEvent ==
    (pc = "findAncestor" /\ send # Nil /\ events # <<>>) =>
        events = <<[sink |-> send, syncing |-> TRUE,
                    current |-> bcHead, highest |-> header]>>

\* C8: when Run returns nil on an empty header batch after committing
\* blocks, the last event handed to the sink, which has been handed events
\* during this Run, is the end event {syncing=false, current=current head,
\* highest=target height}, emitted after the start event.
C8_EndEvent ==
    ( /\ pc = "done" /\ ret = Nil /\ send # Nil /\ events # <<>>
      /\ bcBlocks # <<>>
      /\ LastCall("getHeaders") = Len(calls)
      /\ calls[Len(calls)].headers = <<>> ) =>
        /\ Len(events) >= 2
        /\ events[Len(events)] = [sink |-> send, syncing |-> FALSE,
                                  current |-> bcHead, highest |-> header]

\* The blocks AddBlock accepted, in call order.
Accepted ==
    LET ok == SelectSeq(calls, LAMBDA c : c.op = "AddBlock" /\ c.err = Nil)
    IN  [i \in 1..Len(ok) |-> ok[i].blk]

\* C9: a call that returns an error is the last call Run makes, Run returns
\* that error, and the chain holds exactly the blocks AddBlock accepted
\* before it.
C9_ErrorAborts ==
    /\ \A i \in 1..Len(calls) :
          calls[i].err # Nil => i = Len(calls) /\ pc = "done" /\ ret = calls[i].err
    /\ bcBlocks = Accepted

\* C9 witness: the hook failed on a block after an earlier block was added.
C9_Witness ==
    /\ pc = "done" /\ ret = ErrSyncBlock /\ bcBlocks # <<>>
    /\ calls[Len(calls)].op = "syncBlock"

\* C10: no ancestor (and no error), a too stale ancestor, and an empty header
\* batch each make Run return nil; in the first two cases nothing is called
\* after findAncestor.
C10_VacuousCompletion ==
    /\ ( /\ Len(calls) >= 2 /\ calls[2].op = "findAncestor"
         /\ calls[2].err = Nil /\ calls[2].anc = NoHeader ) =>
            pc = "done" /\ ret = Nil /\ Len(calls) = 2
    /\ ( /\ AncestorFound /\ bcBlocks = <<>>
         /\ bcHead - calls[2].anc.number > maxSyncStaleness ) =>
            pc = "done" /\ ret = Nil /\ Len(calls) = 2
    /\ \A i \in CallIdx("getHeaders") :
          (calls[i].err = Nil /\ calls[i].headers = <<>>) =>
             i = Len(calls) /\ pc = "done" /\ ret = Nil

\* C10 witness: an empty batch ended a Run that had added blocks.
C10_Witness ==
    /\ pc = "done" /\ ret = Nil /\ bcBlocks # <<>>
    /\ LastCall("getHeaders") = Len(calls)
    /\ calls[Len(calls)].headers = <<>>

\* The calls at positions lo+1..hi-1 made to one function.
CallsBetween(lo, hi, op) ==
    SelectSeq(SubSeq(calls, lo + 1, hi - 1), LAMBDA c : c.op = op)

\* The hash lists of a sequence of getBlocks calls, one after the other.
RECURSIVE ConcatHashes(_)
ConcatHashes(cs) ==
    IF cs = <<>> THEN <<>> ELSE Head(cs).hashes \o ConcatHashes(Tail(cs))

\* The getHeaders calls before position k of calls, and the last of them.
HeadersCallsBefore(k) == {g \in 1..(k - 1) : calls[g].op = "getHeaders"}
HeadersCallBefore(k) ==
    CHOOSE g \in HeadersCallsBefore(k) : \A g2 \in HeadersCallsBefore(k) : g2 <= g

\* C11: between the getHeaders call that returned a batch of n headers and
\* the next getHeaders call, Run makes ceil(n/b) getBlocks calls, each but
\* the last for b hashes and the last for the rest, which together are the
\* batch's hashes in order; n blocks are added, and the next getHeaders call
\* starts from the last block added.  calls only grows, so each getHeaders
\* call is looked at when it is the last call made.
C11_Chunking ==
    LET g2 == Len(calls) IN
    (g2 > 0 /\ calls[g2].op = "getHeaders" /\ HeadersCallsBefore(g2) # {}) =>
        LET g1    == HeadersCallBefore(g2)
            n     == Len(calls[g1].headers)
            b     == batchSize
            gets  == CallsBetween(g1, g2, "getBlocks")
            adds  == CallsBetween(g1, g2, "AddBlock")
            count == (n + b - 1) \div b
        IN  /\ Len(gets) = count
            /\ \A k \in 1..(count - 1) : Len(gets[k].hashes) = b
            /\ Len(gets[count].hashes) = n - (count - 1) * b
            /\ ConcatHashes(gets) = [i \in 1..n |-> calls[g1].headers[i].hash]
            /\ Len(adds) = n
            /\ \A k \in 1..n : adds[k].err = Nil
            /\ calls[g2].from = adds[n].blk.header

\* C11 witness: a batch of two headers was fetched in two calls of one hash
\* and the header fetcher was called again.
C11_Witness ==
    \E g1, g2 \in CallIdx("getHeaders") :
        /\ g1 < g2 /\ Len(calls[g1].headers) = 2 /\ batchSize = 1
        /\ Len(CallsBetween(g1, g2, "getBlocks")) = 2

\* The local head is at the target height, findAncestor returned a header of
\* that height, the peer offered nothing above it, and Run has returned.
AlreadySynced ==
    /\ pc = "done" /\ send # Nil /\ AncestorFound
    /\ events # <<>> /\ events[1].current = header
    /\ calls[2].anc.number = header
    /\ \A g \in CallIdx("getHeaders") :
          calls[g].err = Nil /\ calls[g].headers = <<>>

\* C12: an already-synced Run returns nil without any getHeaders, getBlocks
\* or AddBlock call, and emits exactly a start and an end event, both with
\* current = highest = the target height.
C12_AlreadySyncedIsQuiet ==
    AlreadySynced =>
        /\ ret = Nil
        /\ CallIdx("getHeaders") = {} /\ CallIdx("getBlocks") = {}
        /\ CallIdx("AddBlock") = {}
        /\ Len(events) = 2
        /\ \A i \in 1..Len(events) :
              events[i].current = header /\ events[i].highest = header

\* C13: a task's sink, once attached, is never replaced; it is attached only
\* by a SetSendFunc call on a task named "shard-..." that holds none; a task
\* with another name never holds a sink and its Run hands nothing to any sink.
C13_FirstWriterWins ==
    /\ [](~HasShardPrefix(name) => send = Nil /\ events = <<>>)
    /\ [][/\ send # Nil => send' = send
          /\ send' # send => HasShardPrefix(name) /\ send = Nil /\ send' \in Sinks
         ]_vars

\* C13 witness: a "shard-" task whose sink was attached before Run has
\* handed its start event to that sink.
C13_Witness ==
    HasShardPrefix(name) /\ send = "sinkB" /\ events # <<>>
    /\ \A i \in 1..Len(events) : events[i].sink = "sinkB"

\* C14: of two tasks of one reporting group, at most one hands events to a
\* given sink.
C14_GroupExclusive ==
    (HasShardPrefix(name) /\ sibling.name = name) =>
        \A i \in 1..Len(events), j \in 1..Len(sibling.events) :
            events[i].sink # sibling.events[j].sink

\* C15: a batch whose first header is not one above the ancestor passed to
\* getHeaders, or does not name that ancestor as its parent, is rejected with
\* an error before any block of it is fetched or added.
C15_FirstHeaderLinksToAncestor ==
    \A g \in CallIdx("getHeaders") :
        LET hs == calls[g].headers  from == calls[g].from IN
        (/\ calls[g].err = Nil /\ hs # <<>>
         /\ \/ hs[1].number # from.number + 1
            \/ hs[1].parentHash # from.hash) =>
            /\ \A k \in (g + 1)..Len(calls) :
                  calls[k].op \notin {"getBlocks", "AddBlock"}
            /\ pc = "done" => ret \notin {Nil, Running}

\* C16: when blocks are fetched for a batch, ValidateSeal has been called
\* once on each header of the batch, in order, each time with the second
\* argument false and without error, and not on the ancestor; and a seal
\* error is what Run returns.  calls only grows, so each getBlocks and
\* ValidateSeal call is looked at when it is the last call made.
C16_SealEveryHeader ==
    LET k == Len(calls) IN
    /\ (k > 0 /\ calls[k].op = "getBlocks") =>
          LET g     == HeadersCallBefore(k)
              hs    == calls[g].headers
              seals == CallsBetween(g, k, "ValidateSeal")
          IN  /\ Len(seals) = Len(hs)
              /\ \A i \in 1..Len(hs) :
                    /\ seals[i].h = hs[i] /\ seals[i].h # calls[g].from
                    /\ seals[i].enforce = FALSE
                    /\ seals[i].err = Nil
    /\ (k > 0 /\ calls[k].op = "ValidateSeal" /\ calls[k].err # Nil) =>
          pc = "done" /\ ret = calls[k].err
    /\ \A i \in 1..(k - 1) :
          calls[i].op = "ValidateSeal" => calls[i].err = Nil

\* C16 witness: blocks were fetched for a batch of two headers.
C16_Witness ==
    \E k \in CallIdx("getBlocks") :
        /\ Len(calls[HeadersCallBefore(k)].headers) = 2
        /\ Len(CallsBetween(HeadersCallBefore(k), k, "ValidateSeal")) = 2

\* The positions of the getHeaders calls in calls, in order.
HeaderCalls ==
    SelectSeq([i \in 1..Len(calls) |-> i], LAMBDA i : calls[i].op = "getHeaders")

\* The blocks added for the r-th header batch, in order.
AddedInBatch(r) ==
    LET lo == HeaderCalls[r]
        hi == IF r < Len(HeaderCalls) THEN HeaderCalls[r + 1] ELSE Len(calls) + 1
    IN  SelectSeq(SubSeq(calls, lo + 1, hi - 1),
                  LAMBDA c : c.op = "AddBlock" /\ c.err = Nil)

\* The events C17 expects for header batches r, r+1, ...: one after
\* each 100th block added for a batch, with the height of that block and the
\* height of the batch's last header.
RECURSIVE EveryHundredthFrom(_)
EveryHundredthFrom(r) ==
    IF r > Len(HeaderCalls) THEN <<>>
    ELSE LET hs   == calls[HeaderCalls[r]].headers
             adds == AddedInBatch(r)
         IN  [j \in 1..(Len(adds) \div ProgressEvery) |->
                 [sink |-> send, syncing |-> TRUE,
                  current |-> adds[ProgressEvery * j].blk.number,
                  highest |-> hs[Len(hs)].number]]
             \o EveryHundredthFrom(r + 1)

\* The events sent with syncing = true.
Intermediate == SelectSeq(events, LAMBDA e : e.syncing)

\* The task held its sink when Run reached line 52: the first event it handed
\* over is the one of line 52, not the one of line 136 that ends a Run.
SinkAtStart ==
    /\ events # <<>> /\ ~events[1].syncing
    /\ ~(Len(events) = 1 /\ pc = "done" /\ ret = Nil
          /\ calls[Len(calls)].op = "AddBlock")

\* C17: for a sink held from the start of Run on, the events with syncing =
\* true are exactly one after every 100th block added within a header batch,
\* counted across the batch's getBlocks chunks, each with the height of the
\* block just added and the height of the batch's last header.
C17_EveryHundredthOfBatch ==
    SinkAtStart => Intermediate = EveryHundredthFrom(1)

\* C18: the current heights of the events with syncing = true never
\* decrease within a Run.
C18_CurrentNonDecreasing ==
    \A i \in 1..(Len(Intermediate) - 1) :
        Intermediate[i].current <= Intermediate[i + 1].current

\* C20: right after findAncestor has returned an ancestor, Run has been
\* ended by the staleness gate exactly when the local head is more than
\* maxSyncStaleness above the ancestor; an ancestor at or above the local
\* head never ends it.
C20_GateNeverWraps ==
    (AncestorFound /\ Len(calls) = 2) =>
        /\ pc = "done" <=> bcHead - calls[2].anc.number > maxSyncStaleness
        /\ calls[2].anc.number >= bcHead => pc # "done"

\* C19 as stated: Run makes no getHeaders call once the local head has
\* reached the target height.
C19_StopsAtTarget ==
    (calls # <<>> /\ calls[Len(calls)].op = "getHeaders") => bcHead < header
====
